---- MODULE Spec2Model ----
(***************************************************************************)
(* Model of the captioning job queue of App.tsx: the item list, the        *)
(* processing indicator, the shared stop flag, and every processQueue      *)
(* invocation (a "run") with its closure variables: queue, loop position,  *)
(* concurrencyLimit, dispatchDelay and activePromises.                     *)
(*                                                                         *)
(* JavaScript runs one macrotask at a time, so every action below is one   *)
(* macrotask (a user event, a timer, a settled network call) together with *)
(* the promise continuations (microtasks) it triggers.  Timers carry no    *)
(* durations: any order of timer and network events is allowed.            *)
(***************************************************************************)
EXTENDS Integers, Sequences, FiniteSets, TLC

VARIABLES
    images,        \* useState<TaggedImage[]>        (App.tsx:53)
    isProcessing,  \* useState(false)                (App.tsx:54)
    shouldStop,    \* shouldStopRef.current          (App.tsx:63)
    settings,      \* useState<AppSettings>          (App.tsx:39)
    nextId,        \* number of ids handed out by uuidv4()
    runs,          \* the processQueue invocations that have not returned yet, by number
    runCount,      \* number of processQueue invocations that got past the guard
    translations,  \* in-flight handleTranslateZhToEn calls
    userActions,   \* number of user events so far
    downloads,     \* the files handed to downloadTextFile / downloadAsZip, in order
    revoked        \* per item id, the number of URL.revokeObjectURL(previewUrl) calls

vars == <<images, isProcessing, shouldStop, settings, nextId, runs, runCount,
          translations, userActions, downloads, revoked>>

-----------------------------------------------------------------------------
(* Bounds *)

MaxItems == 2      \* images ever uploaded
MaxRuns == 2       \* processQueue invocations that start a run
MaxTranslations == 1  \* translate requests in flight at once
MaxUserActions == 4   \* user events in one session (Spec)
MaxRetryDepth == 1    \* retries one task is put through (Spec)
MaxQuietActions == 3  \* user events in one session (RetrySpec)
MaxRetrying == 1      \* tasks that are in a retry cycle at once (RetrySpec)
MaxExportActions == 4 \* user events in one session (ExportSpec)
MaxEditActions == 4   \* user events in one session (EditSpec)
MaxSettingsActions == 4  \* user events in one session (SettingsSpec)

(* Program constants *)

MAX_RETRIES == 10

-----------------------------------------------------------------------------
(* Texts are sequences of one-character strings, so that trim() is computed. *)

RECURSIVE TrimStart(_)
TrimStart(s) ==
    IF s # <<>> /\ Head(s) = " " THEN TrimStart(Tail(s)) ELSE s

RECURSIVE TrimEnd(_)
TrimEnd(s) ==
    IF s # <<>> /\ s[Len(s)] = " " THEN TrimEnd(SubSeq(s, 1, Len(s) - 1)) ELSE s

Trim(s) == TrimEnd(TrimStart(s))

\* What the provider may answer to a caption request (CaptionResult).
CaptionResults ==
    { [en |-> <<"a">>, zh |-> <<"z">>],
      [en |-> <<" ", "a", " ">>, zh |-> <<"z", " ">>] }

\* The content of a provider's answer to a caption request: its text, whether
\* JSON.parse accepts it, and if so the value JSON.parse returns.
Contents ==
    { [raw |-> <<"j">>, parses |-> TRUE, json |-> v] : v \in CaptionResults }
    \cup { [raw |-> <<"j">>, parses |-> TRUE, json |-> [caption |-> <<"a">>]],
           [raw |-> <<"r", " ">>, parses |-> FALSE] }

\* zh of the fallback result: "parseFailed" = 解析失败 (gemini.ts:72),
\* "parseJsonFailed" = 解析 JSON 失败 (openai.ts:70).
Placeholder(provider) ==
    IF provider = "openai" THEN <<"parseJsonFailed">> ELSE <<"parseFailed">>

\* try { return JSON.parse(content) } catch { return { en: content, zh: ... } }
ParseCaption(provider, content) ==
    IF content.parses THEN content.json
    ELSE [en |-> content.raw, zh |-> Placeholder(provider)]

\* What a caption call of the provider's adapter may resolve with.
Results(provider) == { ParseCaption(provider, content) : content \in Contents }

AllResults == Results("gemini") \cup Results("openai")

\* The result has the two texts that line 164 trims.
HasCaption(result) == {"en", "zh"} \subseteq DOMAIN result

\* What the user may have typed into the Chinese field when it loses focus.
ZhInputs == { <<"y">> }

\* What the provider may answer to a translate request.
TranslateResults == { <<"t", " ">> }

-----------------------------------------------------------------------------
(* Adapter errors.  The engine only looks at error.status and at which of  *)
(* a fixed list of substrings JSON.stringify(error) contains, so an error  *)
(* is its status and the set of those substrings its text contains.        *)

Errors ==
    { [status |-> 429, text |-> {"429", "RESOURCE_EXHAUSTED"}],
      [status |-> 0,   text |-> {"quota"}],
      [status |-> 503, text |-> {"503"}],
      [status |-> 0,   text |-> {"fetch"}],
      [status |-> 0,   text |-> {"MIME"}],
      [status |-> 0,   text |-> {"SAFETY"}],
      [status |-> 0,   text |-> {}],
      [status |-> 0,   text |-> {"429"}],
      [status |-> 0,   text |-> {"503"}],
      [status |-> 429, text |-> {"429", "quota"}],
      [status |-> 429, text |-> {"429"}],
      [status |-> 400, text |-> {"MIME"}],
      [status |-> 400, text |-> {"SAFETY"}],
      [status |-> 400, text |-> {}],
      [status |-> 0,   text |-> {"quota", "MIME"}],
      [status |-> 0,   text |-> {"MIME", "SAFETY"}] }

\* generateCaptionOpenAI throws before any request when the key is empty.
MissingKeyError == [status |-> 0, text |-> {}]

IsRateLimit(e) ==
    \/ e.status = 429
    \/ "429" \in e.text
    \/ "RESOURCE_EXHAUSTED" \in e.text
    \/ "quota" \in e.text

IsRetryableAlsoMime(e) ==
    IsRateLimit(e) \/ "503" \in e.text \/ "fetch" \in e.text \/ "network" \in e.text
        \/ "MIME" \in e.text

IsRetryable(e) ==
    IsRateLimit(e) \/ "503" \in e.text \/ "fetch" \in e.text \/ "network" \in e.text

CanRetryOffByOne(e, attempt) == IsRetryable(e) /\ attempt <= MAX_RETRIES

CanRetry(e, attempt) == IsRetryable(e) /\ attempt < MAX_RETRIES

ErrorMsgSafetyFirst(e, cfg) ==
    IF IsRateLimit(e) THEN "quota"
    ELSE IF "SAFETY" \in e.text THEN "safety"
    ELSE IF "MIME" \in e.text THEN "mime"
    ELSE IF cfg.provider = "openai" /\ ~cfg.openaiApiKey THEN "nokey"
    ELSE "failed"

\* errorMsg of the final error state.  "quota" = 配额耗尽, "mime" = 格式错误,
\* "safety" = 内容拦截, "nokey" = 缺 API Key, "failed" = 生成失败.
ErrorMsg(e, cfg) ==
    IF IsRateLimit(e) THEN "quota"
    ELSE IF "MIME" \in e.text THEN "mime"
    ELSE IF "SAFETY" \in e.text THEN "safety"
    ELSE IF cfg.provider = "openai" /\ ~cfg.openaiApiKey THEN "nokey"
    ELSE "failed"

-----------------------------------------------------------------------------
(* Settings: the fields the engine reads. openaiApiKey is TRUE when the key *)
(* is a non-empty string.                                                   *)

Providers == {"gemini", "openai"}

\* prefix "swj-s5-dw, " and suffix ", white background, vector line art style"
\* are shortened to "t, " and ", b": the prefix keeps its trailing space and
\* the suffix its leading comma.  customPrompt "flux" = FLUX_PROMPT.
DEFAULT_SETTINGS ==
    [provider |-> "gemini", openaiApiKey |-> FALSE,
     prefix |-> <<"t", ",", " ">>, suffix |-> <<",", " ", "b">>,
     customPrompt |-> "flux"]

BaselineConcurrencyGemini(cfg) == 3

\* Line 119.
BaselineConcurrency(cfg) == IF cfg.provider = "openai" THEN 5 ELSE 3

\* Line 120.
BaselineDelay(cfg) == IF cfg.provider = "openai" THEN 100 ELSE 500

-----------------------------------------------------------------------------
(* The item list *)

\* File names, as texts: "a.p" and "a.j" share the base name "a", "a" has
\* no extension.
FileNames == { <<"a", ".", "p">>, <<"a", ".", "j">>, <<"b", ".", "p">>, <<"a">> }

\* The name of the files uploaded in the sessions that export nothing.
PhotoName == <<"a", ".", "p">>

\* Lines 93-101: file is the name of the File object.
NewImage(id, file) ==
    [id |-> id, file |-> file, caption |-> <<>>, captionZh |-> <<>>, status |-> "idle",
     errorMessage |-> "none", selected |-> FALSE]

Ids(imgs) == { imgs[i].id : i \in 1..Len(imgs) }

\* setImages(prev => prev.map(img => img.id === id ? { ...img, ...changes } : img)):
\* the fields of changes override those of the item.
MapItem(imgs, id, changes) ==
    [i \in 1..Len(imgs) |-> IF imgs[i].id = id THEN changes @@ imgs[i] ELSE imgs[i]]

Item(imgs, id) == imgs[CHOOSE i \in 1..Len(imgs) : imgs[i].id = id]

-----------------------------------------------------------------------------
(* Runs.  A run is one invocation of processQueue that passed the          *)
(* isProcessing guard; its record holds the closure variables.             *)
(*   pc: where the async function is suspended                             *)
(*       "pace"  = await wait(dispatchDelay)            (line 253)         *)
(*       "gate"  = await Promise.race(activePromises)   (line 232)         *)
(*       "drain" = await Promise.all(activePromises)    (line 257)         *)
(*       "done"  = returned                                                *)
(*   pos: index in queue of the next item the for loop will take           *)
(* A task is one promise of activePromises: processItemWithRetry(item)     *)
(* with its recursion; pc "call" = awaiting fileToBase64 / the adapter,    *)
(* pc "wait" = await wait(delay) before the recursive call, delay being    *)
(* the time in units of 1/2^10 ms (0 while the task is not waiting).       *)
(* History fields (read by no action): stopped, rateLimitSeen,             *)
(* rateLimitRetried of a run; calls, allRateLimit of a task.               *)

NewTaskAtOne(id) ==
    [id |-> id, attempt |-> 1, pc |-> "call", backoff |-> "none", delay |-> 0,
     calls |-> 1, allRateLimit |-> TRUE]

\* processItemWithRetry(item) of line 239: attempt = 0 by the default of line 126.
NewTask(id) ==
    [id |-> id, attempt |-> 0, pc |-> "call", backoff |-> "none", delay |-> 0,
     calls |-> 1, allRateLimit |-> TRUE]

NewRun(queue, cfg) ==
    [queue |-> queue, pos |-> 1, pc |-> "pace", cfg |-> cfg,
     concurrencyLimit |-> BaselineConcurrency(cfg),
     dispatchDelay |-> BaselineDelay(cfg),
     activePromises |-> <<>>,
     stopped |-> FALSE, rateLimitSeen |-> FALSE, rateLimitRetried |-> FALSE]

\* An engine step yields the run's new record, the new item list and whether
\* the run called setIsProcessing(false).
Outcome(run, imgs, finished) == [run |-> run, images |-> imgs, finished |-> finished]

\* Line 132-136 with attempt = 0: status loading, errorMessage undefined.
SetLoading == [status |-> "loading", errorMessage |-> "none"]

\* Line 132-136 with attempt > 0: errorMessage 重试中 (attempt/10).
SetRetrying == [status |-> "loading", errorMessage |-> "retrying"]

DrainSignalsAtOnce(run, imgs) == Outcome([run EXCEPT !.pc = "done"], imgs, TRUE)

DrainNeverSignals(run, imgs) == Outcome([run EXCEPT !.pc = "drain"], imgs, FALSE)

\* Lines 256-259: await Promise.all(activePromises); setIsProcessing(false).
Drain(run, imgs) ==
    IF run.activePromises = <<>>
    THEN Outcome([run EXCEPT !.pc = "done"], imgs, TRUE)
    ELSE Outcome([run EXCEPT !.pc = "drain"], imgs, FALSE)

GateClosedOffByOne(run) == Len(run.activePromises) > run.concurrencyLimit

\* while (activePromises.length >= concurrencyLimit) of line 231.
GateClosed(run) == Len(run.activePromises) >= run.concurrencyLimit

DispatchFromEnd(run, imgs) ==
    LET id == run.queue[Len(run.queue) - run.pos + 1] IN
    Outcome([run EXCEPT !.activePromises = Append(@, NewTask(id)),
                        !.pos = @ + 1,
                        !.pc = "pace"],
            MapItem(imgs, id, SetLoading), FALSE)

\* Lines 238-253: processItemWithRetry(item) up to its first await, push, wait.
Dispatch(run, imgs) ==
    LET id == run.queue[run.pos] IN
    Outcome([run EXCEPT !.activePromises = Append(@, NewTask(id)),
                        !.pos = @ + 1,
                        !.pc = "pace"],
            MapItem(imgs, id, SetLoading), FALSE)

\* One pass of the for loop from its top (line 224) to the next await.
Loop(run, imgs, stop) ==
    IF run.pos > Len(run.queue) THEN Drain(run, imgs)
    ELSE IF stop THEN Drain(run, imgs)
    ELSE IF GateClosed(run) THEN Outcome([run EXCEPT !.pc = "gate"], imgs, FALSE)
    ELSE Dispatch(run, imgs)

RemoveAt(s, k) == SubSeq(s, 1, k - 1) \o SubSeq(s, k + 1, Len(s))

\* A task's promise settles: removeTask (lines 245-251), then whichever await of
\* the run's loop that wakes up.
Settle(run, k, imgs, stop) ==
    LET r1 == [run EXCEPT !.activePromises = RemoveAt(@, k)] IN
    IF r1.pc = "gate" THEN Loop(r1, imgs, stop)
    ELSE IF r1.pc = "drain" THEN Drain(r1, imgs)
    ELSE Outcome(r1, imgs, FALSE)

\* The stop actions mark the runs they were meant to stop.
MarkStopped(rs) == [r \in DOMAIN rs |-> [rs[r] EXCEPT !.stopped = TRUE]]

-----------------------------------------------------------------------------
(* Initial state: the component just mounted with the default settings.    *)

Init ==
    /\ images = <<>>
    /\ isProcessing = FALSE
    /\ shouldStop = FALSE
    /\ settings = DEFAULT_SETTINGS
    /\ nextId = 1
    /\ runs = <<>>
    /\ runCount = 0
    /\ translations = <<>>
    /\ userActions = 0
    /\ downloads = <<>>
    /\ revoked = [id \in 1..MaxItems |-> 0]

-----------------------------------------------------------------------------
(* Engine *)

\* The ids of a list of items, in list order.
IdsOf(imgs) == [i \in 1..Len(imgs) |-> imgs[i].id]

\* Write an engine step of run r back.
\* A run that returned is gone with its closure.
Apply(r, o) ==
    /\ runs' = IF o.run.pc = "done"
               THEN [x \in DOMAIN runs \ {r} |-> runs[x]]
               ELSE [runs EXCEPT ![r] = o.run]
    /\ images' = o.images
    /\ isProcessing' = IF o.finished THEN FALSE ELSE isProcessing
    /\ UNCHANGED <<shouldStop, settings, nextId, runCount, translations, userActions, downloads, revoked>>

\* processQueue(targetImages), lines 111-260, up to its first await.
\* target is the sequence of ids of targetImages, a snapshot of images.
ProcessQueue(target) ==
    IF isProcessing
    THEN UNCHANGED <<images, isProcessing, shouldStop, settings, nextId, runs,
                     runCount, translations, downloads, revoked>>
    ELSE /\ runCount < MaxRuns
         /\ LET queue == SelectSeq(target, LAMBDA id : Item(images, id).status # "loading")
                o == Loop(NewRun(queue, settings), images, FALSE)
            IN /\ runs' = IF o.run.pc = "done" THEN runs
                          ELSE [x \in DOMAIN runs \cup {runCount + 1} |->
                                   IF x = runCount + 1 THEN o.run ELSE runs[x]]
               /\ images' = o.images
               /\ isProcessing' = ~o.finished
         /\ runCount' = runCount + 1
         /\ shouldStop' = FALSE
         /\ UNCHANGED <<settings, nextId, translations, downloads, revoked>>

\* The timer of await wait(dispatchDelay) fires: the for loop takes its next pass.
PaceTimer(r) ==
    /\ runs[r].pc = "pace"
    /\ Apply(r, Loop(runs[r], images, shouldStop))

\* The adapter cannot answer when generateCaptionOpenAI has no key.
KeyMissing(cfg) == cfg.provider = "openai" /\ ~cfg.openaiApiKey

\* What the provider may answer instead of a caption: an HTTP status with a
\* JSON body that has an error.message or not, the message being the set of
\* the engine's substrings it contains; status 0 is a request that got no
\* response at all.
Responses ==
    { [status |-> 429, hasMessage |-> TRUE,  message |-> {}],
      [status |-> 429, hasMessage |-> TRUE,  message |-> {"quota"}],
      [status |-> 429, hasMessage |-> FALSE, message |-> {}],
      [status |-> 503, hasMessage |-> TRUE,  message |-> {}],
      [status |-> 503, hasMessage |-> FALSE, message |-> {}],
      [status |-> 400, hasMessage |-> TRUE,  message |-> {"MIME"}],
      [status |-> 400, hasMessage |-> TRUE,  message |-> {"SAFETY"}],
      [status |-> 400, hasMessage |-> TRUE,  message |-> {}],
      [status |-> 0,   hasMessage |-> FALSE, message |-> {}] }

\* The engine's substrings in the decimal text of an HTTP status.
StatusText(status) ==
    IF status = 429 THEN {"429"} ELSE IF status = 503 THEN {"503"} ELSE {}

\* generateCaptionOpenAI: fetch rejects with "Failed to fetch", and a response
\* that is not ok becomes new Error(errorData.error?.message ||
\* `OpenAI Error: ${response.status} ${response.statusText}`), an Error that
\* has no status property.
OpenAIError(resp) ==
    IF resp.status = 0 THEN [status |-> 0, text |-> {"fetch"}]
    ELSE IF resp.hasMessage THEN [status |-> 0, text |-> resp.message]
    ELSE [status |-> 0, text |-> StatusText(resp.status)]

\* generateCaption rethrows the error of ai.models.generateContent, which
\* carries the response's status as a property and its body as the message.
GeminiError(resp) ==
    IF resp.status = 0 THEN [status |-> 0, text |-> {"fetch"}]
    ELSE [status |-> resp.status,
          text |-> StatusText(resp.status) \cup resp.message]

AdapterError(provider, resp) ==
    IF provider = "openai" THEN OpenAIError(resp) ELSE GeminiError(resp)

AdapterResultsOfCurrent(cfg) == Results(settings.provider)

\* Lines 141-157: the adapter of the provider in the run's settings.
AdapterResults(cfg) == Results(cfg.provider)

\* The errors of the Errors list that the run's adapter can throw.
AdapterErrors(cfg) ==
    IF KeyMissing(cfg) THEN {MissingKeyError}
    ELSE IF cfg.provider = "openai" THEN { e \in Errors : e.status = 0 }
    ELSE Errors

\* Tasks, of all runs, that are in a retry cycle.
Retrying ==
    { <<r, k>> \in (DOMAIN runs) \X (1..MaxItems) :
        /\ k <= Len(runs[r].activePromises)
        /\ runs[r].activePromises[k].attempt > 0 \/ runs[r].activePromises[k].pc = "wait" }

SetSuccessDeselects(result) ==
    [status |-> "success", caption |-> Trim(result.en),
     captionZh |-> Trim(result.zh), errorMessage |-> "none", selected |-> FALSE]

\* Lines 160-166.
SetSuccess(result) ==
    [status |-> "success", caption |-> Trim(result.en),
     captionZh |-> Trim(result.zh), errorMessage |-> "none"]

RECURSIVE Pow(_, _)
Pow(b, n) == IF n = 0 THEN 1 ELSE b * Pow(b, n - 1)

\* ms milliseconds in the unit of delays, 1/2^MAX_RETRIES ms, in which
\* 3000 * 1.5^attempt is a whole number for every attempt up to MAX_RETRIES.
Ms(ms) == ms * Pow(2, MAX_RETRIES)

ExpDelayFlat(attempt) == Ms(3000)

\* Line 182: 3000 * Math.pow(1.5, attempt) = 3000 * 3^attempt / 2^attempt.
ExpDelay(attempt) == 3000 * Pow(3, attempt) * Pow(2, MAX_RETRIES - attempt)

\* Math.random() * 5000 of line 188: Math.random() is in [0, 1), so the
\* product is from 0 up to just below 5000 ms.
Randoms == { 0, Ms(5000) - 1 }

\* Lines 182-188: the wait before the retry.
Delay(e, attempt, random) ==
    IF IsRateLimit(e) THEN Ms(15000) + random ELSE ExpDelay(attempt)

RetryRunLoosens(run, k, e, random) ==
    LET t == run.activePromises[k]
        t1 == [t EXCEPT !.pc = "wait",
                        !.backoff = IF IsRateLimit(e) THEN "quota" ELSE "net",
                        !.delay = Delay(e, t.attempt, random),
                        !.allRateLimit = @ /\ IsRateLimit(e)]
    IN IF IsRateLimit(e)
       THEN [run EXCEPT !.concurrencyLimit = @ + 1, !.dispatchDelay = 100,
                        !.activePromises[k] = t1]
       ELSE [run EXCEPT !.activePromises[k] = t1]

\* Lines 184-201: the retry branch of the catch block.
RetryRun(run, k, e, random) ==
    LET t == run.activePromises[k]
        t1 == [t EXCEPT !.pc = "wait",
                        !.backoff = IF IsRateLimit(e) THEN "quota" ELSE "net",
                        !.delay = Delay(e, t.attempt, random),
                        !.allRateLimit = @ /\ IsRateLimit(e)]
    IN IF IsRateLimit(e)
       THEN [run EXCEPT !.concurrencyLimit = 1, !.dispatchDelay = 8000,
                        !.activePromises[k] = t1]
       ELSE [run EXCEPT !.activePromises[k] = t1]

\* "quotaWait" = 配额保护中 (..s), "netWait" = 网络重试 (..s).
SetBackoff(e) ==
    [status |-> "loading",
     errorMessage |-> IF IsRateLimit(e) THEN "quotaWait" ELSE "netWait"]

SetErrorClearsCaption(msg) == [status |-> "error", errorMessage |-> msg, caption |-> <<>>]

\* Lines 215-219.
SetError(msg) == [status |-> "error", errorMessage |-> msg]

\* History: the run has classified an error as a rate limit (rateLimitSeen), and
\* has done so at an attempt below MAX_RETRIES (rateLimitRetried).
Classified(run, k, e) ==
    [run EXCEPT !.rateLimitSeen = @ \/ IsRateLimit(e),
                !.rateLimitRetried =
                    @ \/ (IsRateLimit(e) /\ run.activePromises[k].attempt < MAX_RETRIES)]

\* The adapter call of task k of run r rejects with error e (lines 167-220).
TaskReject(r, k, e) ==
    LET run == Classified(runs[r], k, e)
        t == run.activePromises[k]
    IN /\ t.pc = "call"
       /\ e \in AdapterErrors(run.cfg)
       /\ IF shouldStop
          THEN Apply(r, Settle(runs[r], k, images, shouldStop))
          ELSE IF CanRetry(e, t.attempt)
          THEN \E random \in Randoms :
                   Apply(r, Outcome(RetryRun(run, k, e, random),
                                    MapItem(images, t.id, SetBackoff(e)),
                                    FALSE))
          ELSE Apply(r, Settle(run, k,
                               MapItem(images, t.id, SetError(ErrorMsg(e, run.cfg))),
                               shouldStop))

\* result.en.trim() or result.zh.trim() of line 164 throws a TypeError when the
\* result has no such text; the catch block of line 167 receives it.
TrimError == [status |-> 0, text |-> {}]

RestoreItem(imgs, id) == IF id \in Ids(imgs) THEN imgs ELSE Append(imgs, NewImage(id, PhotoName))

TaskResolveRestores(r, k, result) ==
    LET run == runs[r]
        t == run.activePromises[k]
    IN /\ t.pc = "call"
       /\ ~KeyMissing(run.cfg)
       /\ result \in AdapterResults(run.cfg)
       /\ IF shouldStop
          THEN Apply(r, Settle(run, k, images, shouldStop))
          ELSE IF HasCaption(result)
          THEN Apply(r, Settle(run, k,
                        MapItem(RestoreItem(images, t.id), t.id, SetSuccess(result)),
                        shouldStop))
          ELSE TaskReject(r, k, TrimError)

\* The adapter call of task k of run r resolves with result (lines 138-166).
TaskResolve(r, k, result) ==
    LET run == runs[r]
        t == run.activePromises[k]
    IN /\ t.pc = "call"
       /\ ~KeyMissing(run.cfg)
       /\ result \in AdapterResults(run.cfg)
       /\ IF shouldStop
          THEN Apply(r, Settle(run, k, images, shouldStop))
          ELSE IF HasCaption(result)
          THEN Apply(r, Settle(run, k, MapItem(images, t.id, SetSuccess(result)), shouldStop))
          ELSE TaskReject(r, k, TrimError)

\* The timer of await wait(delay) fires: processItemWithRetry(item, attempt + 1).
BackoffTimer(r, k) ==
    LET run == runs[r]
        t == run.activePromises[k]
    IN /\ t.pc = "wait"
       /\ IF shouldStop
          THEN Apply(r, Settle(run, k, images, shouldStop))
          ELSE Apply(r, Outcome(
                   [run EXCEPT !.activePromises[k] =
                       [t EXCEPT !.pc = "call", !.backoff = "none", !.delay = 0,
                                 !.attempt = @ + 1, !.calls = @ + 1]],
                   MapItem(images, t.id, SetRetrying), FALSE))

-----------------------------------------------------------------------------
(* User actions.  Each is guarded by what the rendered page lets the user  *)
(* do: the start/stop button (App.tsx:499-522), the per-card controls of   *)
(* ImageCard, the batch buttons (App.tsx:594-621).                         *)

UserEvent ==
    /\ userActions' = userActions + 1

\* handleFileUpload with image files of the given names (lines 67-107).
Upload(files) ==
    /\ UserEvent
    /\ Len(files) > 0
    /\ nextId + Len(files) - 1 <= MaxItems
    /\ images' = images \o [i \in 1..Len(files) |-> NewImage(nextId + i - 1, files[i])]
    /\ nextId' = nextId + Len(files)
    /\ UNCHANGED <<isProcessing, shouldStop, settings, runs, runCount, translations, downloads, revoked>>

\* handleToggleSelect (lines 348-350).
ToggleSelect(id) ==
    /\ UserEvent
    /\ id \in Ids(images)
    /\ images' = [i \in 1..Len(images) |->
                    IF images[i].id = id THEN [images[i] EXCEPT !.selected = ~@]
                    ELSE images[i]]
    /\ UNCHANGED <<isProcessing, shouldStop, settings, nextId, runs, runCount, translations, downloads, revoked>>

\* The SettingsPanel: a provider button, or the OpenAI key field, which is
\* shown while the provider is openai.
ChangeSettings(s) ==
    /\ UserEvent
    /\ s.provider # settings.provider \/ s.openaiApiKey # settings.openaiApiKey
    /\ \/ s.openaiApiKey = settings.openaiApiKey
       \/ s.provider = settings.provider /\ settings.provider = "openai"
    /\ settings' = s @@ settings
    /\ UNCHANGED <<images, isProcessing, shouldStop, nextId, runs, runCount, translations, downloads, revoked>>

IsSelected(img) == img.selected

\* handleSelectAll (lines 352-357), in the toolbar shown while the list is not empty.
SelectAll ==
    /\ UserEvent
    /\ Len(images) > 0
    /\ LET allSelected == \A i \in 1..Len(images) : images[i].selected
       IN images' = [i \in 1..Len(images) |-> [images[i] EXCEPT !.selected = ~allSelected]]
    /\ UNCHANGED <<isProcessing, shouldStop, settings, nextId, runs, runCount, translations, downloads, revoked>>

IsPending(img) == img.status = "idle" \/ img.status = "error"

\* handleStartProcessing (lines 262-276), behind the start button.
StartProcessing ==
    /\ UserEvent
    /\ Len(images) > 0
    /\ ~isProcessing
    /\ SelectSeq(images, IsSelected) # <<>> \/ SelectSeq(images, IsPending) # <<>>
    /\ IF KeyMissing(settings)
       THEN UNCHANGED <<images, isProcessing, shouldStop, settings, nextId, runs,
                        runCount, translations, downloads, revoked>>
       ELSE IF SelectSeq(images, IsSelected) # <<>>
       THEN ProcessQueue(IdsOf(SelectSeq(images, IsSelected)))
       ELSE ProcessQueue(IdsOf(SelectSeq(images, IsPending)))

\* handleStopProcessing (lines 278-281), behind the same button while processing.
StopProcessing ==
    /\ UserEvent
    /\ Len(images) > 0
    /\ isProcessing
    /\ shouldStop' = TRUE
    /\ isProcessing' = FALSE
    /\ runs' = MarkStopped(runs)
    /\ UNCHANGED <<images, settings, nextId, runCount, translations, downloads, revoked>>

\* handleRegenerate (lines 283-288); the card disables the button while loading.
Regenerate(id) ==
    /\ UserEvent
    /\ id \in Ids(images)
    /\ Item(images, id).status # "loading"
    /\ ProcessQueue(<<id>>)

\* handleTranslateZhToEn up to its await (line 291); the Chinese field that
\* triggers it on blur is disabled while loading.
Translate(id, zhText) ==
    /\ UserEvent
    /\ id \in Ids(images)
    /\ Item(images, id).status # "loading"
    /\ Len(translations) < MaxTranslations
    /\ Trim(zhText) # <<>>
    /\ images' = MapItem(images, id, [status |-> "translating", captionZh |-> zhText])
    /\ translations' = Append(translations, [id |-> id, cfg |-> settings])
    /\ UNCHANGED <<isProcessing, shouldStop, settings, nextId, runs, runCount, downloads, revoked>>

\* Lines 306-308.
TranslateResolve(k, enText) ==
    /\ UNCHANGED userActions
    /\ k \in 1..Len(translations)
    /\ ~KeyMissing(translations[k].cfg)
    /\ images' = MapItem(images, translations[k].id,
                          [status |-> "success", caption |-> Trim(enText)])
    /\ translations' = RemoveAt(translations, k)
    /\ UNCHANGED <<isProcessing, shouldStop, settings, nextId, runs, runCount, downloads, revoked>>

TranslateRejectRetries(k, e) ==
    /\ UNCHANGED userActions
    /\ k \in 1..Len(translations)
    /\ e \in AdapterErrors(translations[k].cfg)
    /\ IF IsRateLimit(e)
       THEN /\ images' = MapItem(images, translations[k].id, SetBackoff(e))
            /\ UNCHANGED translations
       ELSE /\ images' = MapItem(images, translations[k].id, SetError("syncFailed"))
            /\ translations' = RemoveAt(translations, k)
    /\ UNCHANGED <<isProcessing, shouldStop, settings, nextId, runs, runCount, downloads, revoked>>

\* Lines 309-311: the call rejects with error e, which the catch block does
\* not look at; "syncFailed" = 同步失败.
TranslateReject(k, e) ==
    /\ UNCHANGED userActions
    /\ k \in 1..Len(translations)
    /\ e \in AdapterErrors(translations[k].cfg)
    /\ images' = MapItem(images, translations[k].id, SetError("syncFailed"))
    /\ translations' = RemoveAt(translations, k)
    /\ UNCHANGED <<isProcessing, shouldStop, settings, nextId, runs, runCount, downloads, revoked>>

\* URL.revokeObjectURL(img.previewUrl) for the items with these ids.
Revoke(ids) == [id \in 1..MaxItems |-> IF id \in ids THEN revoked[id] + 1 ELSE revoked[id]]

\* handleDelete that drops the item and keeps its preview URL alive.
DeleteKeepsHandle(id) ==
    /\ UserEvent
    /\ id \in Ids(images)
    /\ images' = SelectSeq(images, LAMBDA img : img.id # id)
    /\ UNCHANGED <<isProcessing, shouldStop, settings, nextId, runs, runCount, translations,
                   downloads, revoked>>

\* handleDelete (lines 337-344): the updater revokes the preview URL of the
\* item it finds and filters the item out.
Delete(id) ==
    /\ UserEvent
    /\ id \in Ids(images)
    /\ images' = SelectSeq(images, LAMBDA img : img.id # id)
    /\ revoked' = Revoke({id})
    /\ UNCHANGED <<isProcessing, shouldStop, settings, nextId, runs, runCount, translations, downloads>>

\* handleDeleteSelected, confirmed (lines 359-380).
DeleteSelected ==
    /\ UserEvent
    /\ SelectSeq(images, IsSelected) # <<>>
    /\ shouldStop' = TRUE
    /\ isProcessing' = FALSE
    /\ runs' = MarkStopped(runs)
    /\ images' = SelectSeq(images, LAMBDA img : ~img.selected)
    /\ revoked' = Revoke({ images[i].id : i \in { j \in 1..Len(images) : images[j].selected } })
    /\ UNCHANGED <<settings, nextId, runCount, translations, downloads>>

\* handleClearAll, confirmed (lines 382-393).
ClearAll ==
    /\ UserEvent
    /\ Len(images) > 0
    /\ shouldStop' = TRUE
    /\ isProcessing' = FALSE
    /\ runs' = MarkStopped(runs)
    /\ images' = <<>>
    /\ revoked' = Revoke(Ids(images))
    /\ UNCHANGED <<settings, nextId, runCount, translations, downloads>>

-----------------------------------------------------------------------------
(* Caption editing and export *)

\* What the user may type into a caption field.
CaptionEdits == { <<>>, <<" ">>, <<"a">>, <<" ", "a", " ">> }

\* What the user may type into the prefix and suffix fields of the SettingsPanel.
PrefixEdits == { <<>>, <<" ">>, <<"t">>, <<"t", ",", " ">> }
SuffixEdits == { <<>>, <<"b">>, <<",", " ", "b">> }

\* Array.prototype.join.
RECURSIVE Join(_, _)
Join(parts, sep) ==
    IF Len(parts) = 0 THEN <<>>
    ELSE IF Len(parts) = 1 THEN parts[1]
    ELSE parts[1] \o sep \o Join(Tail(parts), sep)

\* p && p.trim().length > 0
NonBlank(p) == Len(p) > 0 /\ Len(Trim(p)) > 0

\* getFinalCaption (lines 397-400), with the settings of the current render.
GetFinalCaption(cfg, rawCaption) ==
    Join(SelectSeq(<<cfg.prefix, rawCaption, cfg.suffix>>, NonBlank), <<" ">>)

\* handleUpdateCaption (lines 328-330), called by the English caption field
\* of an ImageCard, which is disabled while the item is loading.
UpdateCaption(id, text) ==
    /\ UserEvent
    /\ id \in Ids(images)
    /\ Item(images, id).status # "loading"
    /\ text # Item(images, id).caption
    /\ images' = MapItem(images, id, [caption |-> text])
    /\ UNCHANGED <<isProcessing, shouldStop, settings, nextId, runs, runCount,
                   translations, downloads, revoked>>

\* handleUpdateCaptionZh (lines 333-335), called by the Chinese caption field
\* of an ImageCard, which is disabled while the item is loading.
UpdateCaptionZh(id, text) ==
    /\ UserEvent
    /\ id \in Ids(images)
    /\ Item(images, id).status # "loading"
    /\ text # Item(images, id).captionZh
    /\ images' = MapItem(images, id, [captionZh |-> text])
    /\ UNCHANGED <<isProcessing, shouldStop, settings, nextId, runs, runCount,
                   translations, downloads, revoked>>

\* updateSetting('prefix', e.target.value) of the SettingsPanel.
UpdatePrefix(text) ==
    /\ UserEvent
    /\ text # settings.prefix
    /\ settings' = [settings EXCEPT !.prefix = text]
    /\ UNCHANGED <<images, isProcessing, shouldStop, nextId, runs, runCount,
                   translations, downloads, revoked>>

\* updateSetting('suffix', e.target.value) of the SettingsPanel.
UpdateSuffix(text) ==
    /\ UserEvent
    /\ text # settings.suffix
    /\ settings' = [settings EXCEPT !.suffix = text]
    /\ UNCHANGED <<images, isProcessing, shouldStop, nextId, runs, runCount,
                   translations, downloads, revoked>>

\* What the user may type into the prompt field of the SettingsPanel.
Prompts == { "flux", "qwen", "mine" }

\* updateSetting('customPrompt', e.target.value) of the SettingsPanel.
UpdatePrompt(text) ==
    /\ UserEvent
    /\ text # settings.customPrompt
    /\ settings' = [settings EXCEPT !.customPrompt = text]
    /\ UNCHANGED <<images, isProcessing, shouldStop, nextId, runs, runCount,
                   translations, downloads, revoked>>

\* { filename: img.file.name, content: getFinalCaption(img.caption) }
ExportFile(img) == [filename |-> img.file, content |-> GetFinalCaption(settings, img.caption)]

\* filename.lastIndexOf('.'), counted from 1; 0 when there is no dot.
LastDot(filename) ==
    LET dots == { i \in 1..Len(filename) : filename[i] = "." }
    IN  IF dots = {} THEN 0 ELSE CHOOSE i \in dots : \A j \in dots : j <= i

\* filename.substring(0, filename.lastIndexOf('.'))
BaseName(filename) == SubSeq(filename, 1, LastDot(filename) - 1)

Txt == <<".", "t", "x", "t">>

\* downloadTextFile (fileHelpers.ts:16-26): the name and content of the saved file.
DownloadTextFile(file) == (BaseName(file.filename) \o Txt) :> file.content

\* The forEach body of downloadAsZip (fileHelpers.ts:34-50) over the files
\* from position k on.  usedNames and zip are functions on the names seen so
\* far; a name outside DOMAIN usedNames reads as undefined, and undefined and
\* 0 are both falsy in the test of line 42.
RECURSIVE ZipFrom(_, _, _, _)
ZipFrom(files, k, usedNames, zip) ==
    IF k > Len(files) THEN zip
    ELSE LET filename == files[k].filename
             baseName == IF BaseName(filename) = <<>> THEN filename ELSE BaseName(filename)
             txtName == baseName \o Txt
             used == txtName \in DOMAIN usedNames /\ usedNames[txtName] # 0
             count == IF used THEN usedNames[txtName] + 1 ELSE 0
             entry == IF used THEN baseName \o <<"_", ToString(count)>> \o Txt ELSE txtName
         IN  ZipFrom(files, k + 1,
                     (txtName :> count) @@ usedNames,
                     (entry :> files[k].content) @@ zip)

\* downloadAsZip (fileHelpers.ts:28-61): the entries of captions.zip, by name.
DownloadAsZip(files) == ZipFrom(files, 1, <<>>, <<>>)

\* handleDownloadSingle (lines 402-405): the download button of an ImageCard.
DownloadSingle(id) ==
    /\ UserEvent
    /\ id \in Ids(images)
    /\ LET file == ExportFile(Item(images, id))
       IN  downloads' = Append(downloads, [zip |-> FALSE, files |-> <<file>>,
                                           saved |-> DownloadTextFile(file)])
    /\ UNCHANGED <<images, isProcessing, shouldStop, settings, nextId, runs, runCount,
                   translations, revoked>>

\* handleDownloadZip (lines 407-421): the button is disabled while the list
\* is empty; with no captioned item the handler alerts and returns.
DownloadZip ==
    /\ UserEvent
    /\ Len(images) > 0
    /\ LET captioned == SelectSeq(images, LAMBDA img : NonBlank(img.caption))
           filesToZip == [k \in 1..Len(captioned) |-> ExportFile(captioned[k])]
       IN  downloads' = IF Len(filesToZip) = 0 THEN downloads
                        ELSE Append(downloads, [zip |-> TRUE, files |-> filesToZip,
                                                saved |-> DownloadAsZip(filesToZip)])
    /\ UNCHANGED <<images, isProcessing, shouldStop, settings, nextId, runs, runCount,
                   translations, revoked>>

-----------------------------------------------------------------------------

\* The files one upload may bring.
FileLists == UNION { [1..n -> FileNames] : n \in 1..MaxItems }

SettingsValues == [provider : Providers, openaiApiKey : BOOLEAN]

Tasks == { <<r, k>> \in (DOMAIN runs) \X (1..MaxItems) : k <= Len(runs[r].activePromises) }

Attempt(r, k) == runs[r].activePromises[k].attempt

\* The provider answers each task with a retryable error at most MaxRetryDepth times.
Shallow(r, k, e) == CanRetry(e, Attempt(r, k)) => Attempt(r, k) < MaxRetryDepth

\* The provider may fail every call of a task, of MaxRetrying tasks at a time.
Deep(r, k, e) ==
    CanRetry(e, Attempt(r, k)) /\ Attempt(r, k) = 0 => Cardinality(Retrying) < MaxRetrying

\* A step is one macrotask: a user event while the session has events left, a
\* timer, or a network answer the environment allows.

\* Spec: a session of MaxUserActions user events with shallow retries.
Next ==
    \/ \E n \in 1..MaxItems : userActions < MaxUserActions /\ Upload([i \in 1..n |-> PhotoName])
    \/ \E id \in 1..MaxItems : userActions < MaxUserActions /\ ToggleSelect(id)
    \/ userActions < MaxUserActions /\ SelectAll
    \/ \E s \in SettingsValues : userActions < MaxUserActions /\ ChangeSettings(s)
    \/ userActions < MaxUserActions /\ StartProcessing
    \/ userActions < MaxUserActions /\ StopProcessing
    \/ \E id \in 1..MaxItems : userActions < MaxUserActions /\ Regenerate(id)
    \/ \E id \in 1..MaxItems, zhText \in ZhInputs :
            userActions < MaxUserActions /\ Translate(id, zhText)
    \/ \E id \in 1..MaxItems : userActions < MaxUserActions /\ Delete(id)
    \/ userActions < MaxUserActions /\ DeleteSelected
    \/ userActions < MaxUserActions /\ ClearAll
    \/ \E k \in 1..MaxTranslations, enText \in TranslateResults : TranslateResolve(k, enText)
    \/ \E k \in 1..MaxTranslations, e \in Errors : TranslateReject(k, e)
    \/ \E r \in DOMAIN runs : PaceTimer(r)
    \/ \E <<r, k>> \in Tasks : \E result \in AllResults : TaskResolve(r, k, result)
    \/ \E <<r, k>> \in Tasks : \E e \in Errors : Shallow(r, k, e) /\ TaskReject(r, k, e)
    \/ \E <<r, k>> \in Tasks : BackoffTimer(r, k)

Spec == Init /\ [][Next]_vars

\* RetrySpec: a session of MaxQuietActions user events with full retries.
NextRetry ==
    \/ \E n \in 1..MaxItems : userActions < MaxQuietActions /\ Upload([i \in 1..n |-> PhotoName])
    \/ \E id \in 1..MaxItems : userActions < MaxQuietActions /\ ToggleSelect(id)
    \/ userActions < MaxQuietActions /\ SelectAll
    \/ \E s \in SettingsValues : userActions < MaxQuietActions /\ ChangeSettings(s)
    \/ userActions < MaxQuietActions /\ StartProcessing
    \/ userActions < MaxQuietActions /\ StopProcessing
    \/ \E id \in 1..MaxItems : userActions < MaxQuietActions /\ Regenerate(id)
    \/ \E id \in 1..MaxItems, zhText \in ZhInputs :
            userActions < MaxQuietActions /\ Translate(id, zhText)
    \/ \E id \in 1..MaxItems : userActions < MaxQuietActions /\ Delete(id)
    \/ userActions < MaxQuietActions /\ DeleteSelected
    \/ userActions < MaxQuietActions /\ ClearAll
    \/ \E k \in 1..MaxTranslations, enText \in TranslateResults : TranslateResolve(k, enText)
    \/ \E k \in 1..MaxTranslations, e \in Errors : TranslateReject(k, e)
    \/ \E r \in DOMAIN runs : PaceTimer(r)
    \/ \E <<r, k>> \in Tasks : \E result \in AllResults : TaskResolve(r, k, result)
    \/ \E <<r, k>> \in Tasks : \E e \in Errors : Deep(r, k, e) /\ TaskReject(r, k, e)
    \/ \E <<r, k>> \in Tasks : BackoffTimer(r, k)

RetrySpec == Init /\ [][NextRetry]_vars

\* A pending timer fires: setTimeout of wait() (line 12) is served by the event loop.
Timers ==
    \/ \E r \in DOMAIN runs : PaceTimer(r)
    \/ \E <<r, k>> \in Tasks : BackoffTimer(r, k)

\* A caption call that is in flight returns, with a result or with an error.
AdapterReturns ==
    \/ \E <<r, k>> \in Tasks : \E result \in AllResults : TaskResolve(r, k, result)
    \/ \E <<r, k>> \in Tasks : \E e \in Errors : Deep(r, k, e) /\ TaskReject(r, k, e)

\* A translate call that is in flight returns.
TranslateReturns ==
    \/ \E k \in 1..MaxTranslations, enText \in TranslateResults : TranslateResolve(k, enText)
    \/ \E k \in 1..MaxTranslations, e \in Errors : TranslateReject(k, e)

\* FairRetrySpec: RetrySpec where timers fire and every provider call returns.
FairRetrySpec ==
    RetrySpec /\ WF_vars(Timers) /\ WF_vars(AdapterReturns) /\ WF_vars(TranslateReturns)

-----------------------------------------------------------------------------
(* An editing session: the user uploads images, edits captions, prefix and *)
(* suffix, and exports; no caption request is made.                        *)

NextExport ==
    \/ \E files \in FileLists : userActions < MaxExportActions /\ Upload(files)
    \/ \E id \in 1..MaxItems, text \in CaptionEdits :
          userActions < MaxExportActions /\ UpdateCaption(id, text)
    \/ \E text \in PrefixEdits : userActions < MaxExportActions /\ UpdatePrefix(text)
    \/ \E text \in SuffixEdits : userActions < MaxExportActions /\ UpdateSuffix(text)
    \/ \E id \in 1..MaxItems : userActions < MaxExportActions /\ DownloadSingle(id)
    \/ userActions < MaxExportActions /\ DownloadZip
    \/ \E id \in 1..MaxItems : userActions < MaxExportActions /\ Delete(id)

ExportSpec == Init /\ [][NextExport]_vars

-----------------------------------------------------------------------------
(* A captioning session in which the user also edits the caption fields.   *)

NextEdit ==
    \/ \E n \in 1..MaxItems : userActions < MaxEditActions /\ Upload([i \in 1..n |-> PhotoName])
    \/ userActions < MaxEditActions /\ StartProcessing
    \/ \E id \in 1..MaxItems, zhText \in ZhInputs :
            userActions < MaxEditActions /\ Translate(id, zhText)
    \/ \E id \in 1..MaxItems, text \in CaptionEdits :
            userActions < MaxEditActions /\ UpdateCaption(id, text)
    \/ \E id \in 1..MaxItems, text \in CaptionEdits :
            userActions < MaxEditActions /\ UpdateCaptionZh(id, text)
    \/ \E k \in 1..MaxTranslations, enText \in TranslateResults : TranslateResolve(k, enText)
    \/ \E k \in 1..MaxTranslations, e \in Errors : TranslateReject(k, e)
    \/ \E r \in DOMAIN runs : PaceTimer(r)
    \/ \E <<r, k>> \in Tasks : \E result \in AllResults : TaskResolve(r, k, result)
    \/ \E <<r, k>> \in Tasks : \E e \in Errors : Shallow(r, k, e) /\ TaskReject(r, k, e)
    \/ \E <<r, k>> \in Tasks : BackoffTimer(r, k)

EditSpec == Init /\ [][NextEdit]_vars

-----------------------------------------------------------------------------
(* A captioning session in which the user also changes the settings.       *)

NextSettings ==
    \/ \E n \in 1..MaxItems : userActions < MaxSettingsActions /\ Upload([i \in 1..n |-> PhotoName])
    \/ \E s \in SettingsValues : userActions < MaxSettingsActions /\ ChangeSettings(s)
    \/ \E text \in Prompts : userActions < MaxSettingsActions /\ UpdatePrompt(text)
    \/ userActions < MaxSettingsActions /\ StartProcessing
    \/ \E id \in 1..MaxItems : userActions < MaxSettingsActions /\ Regenerate(id)
    \/ \E r \in DOMAIN runs : PaceTimer(r)
    \/ \E <<r, k>> \in Tasks : \E result \in AllResults : TaskResolve(r, k, result)
    \/ \E <<r, k>> \in Tasks : \E e \in Errors : Shallow(r, k, e) /\ TaskReject(r, k, e)
    \/ \E <<r, k>> \in Tasks : BackoffTimer(r, k)

SettingsSpec == Init /\ [][NextSettings]_vars

-----------------------------------------------------------------------------
(* Properties *)

Live == DOMAIN runs

\* Run r is live before and after the step.
Stays(r) == r \in DOMAIN runs /\ r \in DOMAIN runs'

InFlight(r) == Len(runs[r].activePromises)

\* The tasks, of all runs, that are in flight for item id.
TasksOf(id) == { <<r, k>> \in Tasks : runs[r].activePromises[k].id = id }

\* The for loop of run r dispatches its next item in the step.
Dispatches(r) == Stays(r) /\ runs'[r].pos = runs[r].pos + 1

C2_NoDispatchAfterStop ==
    [][\A r \in DOMAIN runs : runs[r].stopped => ~Dispatches(r)]_vars

\* C3: a task of a stopped run that resumes changes no item.
C3_NoMutationAfterStop ==
    [][\A r \in DOMAIN runs :
          /\ runs[r].stopped
          /\ ~Dispatches(r)
          /\ (r \notin DOMAIN runs' \/ runs'[r].activePromises # runs[r].activePromises)
          => images' = images]_vars

\* C4: no item has two caption tasks in flight at once.
C4_OneTaskPerItem ==
    \A id \in 1..MaxItems : Cardinality(TasksOf(id)) <= 1

\* C5: at most one run is active (loop not finished or tasks in flight) at a time.
C5_OneActiveRun == Cardinality(Live) <= 1

\* What C6 asks of the step in which a call of task k fails with a rate limit:
\* below attempt 10 the task goes into its backoff wait with the item loading;
\* at attempt 10, its eleventh call, the task ends with the item in error.
C6_RateLimitStep(r, k, e) ==
    LET t == runs[r].activePromises[k] IN
    IF t.attempt < 10
    THEN /\ Stays(r)
         /\ Len(runs'[r].activePromises) = InFlight(r)
         /\ runs'[r].activePromises[k].id = t.id
         /\ runs'[r].activePromises[k].pc = "wait"
         /\ t.id \in Ids(images) => Item(images', t.id).status = "loading"
    ELSE /\ t.attempt = 10
         /\ t.calls = 11
         /\ r \in DOMAIN runs' => \A j \in 1..Len(runs'[r].activePromises) :
                                     runs'[r].activePromises[j].id # t.id
         /\ t.id \in Ids(images) =>
                /\ Item(images', t.id).status = "error"
                /\ Item(images', t.id).errorMessage = "quota"

\* A task has made attempt + 1 adapter calls, at most 11, and waits for a retry
\* only below attempt 10.
C6_CallCount ==
    \A <<r, k>> \in Tasks :
        LET t == runs[r].activePromises[k] IN
        /\ t.attempt \in 0..10
        /\ t.calls = t.attempt + 1
        /\ t.pc = "wait" => t.attempt < 10

\* C6: in a run that is not cancelled, a task whose call fails with a rate limit
\* is retried while its attempt is below 10 and puts the item in error at
\* attempt 10, the eleventh call: after exactly 10 retries, not before, not after.
C6_ErrorAfterTenRetries ==
    /\ []C6_CallCount
    /\ [][\A <<r, k>> \in Tasks : \A e \in Errors :
            /\ ~runs[r].stopped
            /\ e.status = 429 \/ "quota" \in e.text
            /\ TaskReject(r, k, e)
            => C6_RateLimitStep(r, k, e)]_vars

\* A task of a run that is not cancelled is in its eleventh call, every earlier
\* call having failed with a rate limit.
C6_Witness ==
    \E <<r, k>> \in Tasks :
        /\ ~runs[r].stopped
        /\ runs[r].activePromises[k].allRateLimit
        /\ runs[r].activePromises[k].attempt = 10
        /\ runs[r].activePromises[k].pc = "call"
        /\ runs[r].activePromises[k].id \in Ids(images)

Throttled(r) == runs[r].concurrencyLimit = 1 /\ runs[r].dispatchDelay = 8000

\* C7: once a run has classified any error as a rate limit, at any attempt, its
\* concurrencyLimit is 1 and its dispatchDelay is 8000 from then on.
C7_ThrottledFromFirstRateLimit ==
    \A r \in Live : runs[r].rateLimitSeen => Throttled(r)

\* Once a run has classified an error as a rate limit at an attempt below 10, it
\* is throttled for the rest of the run, whatever errors come later.
ThrottledFromRetriedRateLimit ==
    \A r \in Live : runs[r].rateLimitRetried => Throttled(r)

\* C8: the limit stays between 1 and the provider baseline.
C8_LimitInRange ==
    \A r \in Live :
        /\ runs[r].concurrencyLimit >= 1
        /\ runs[r].concurrencyLimit <= (IF runs[r].cfg.provider = "openai" THEN 5 ELSE 3)

\* C8: within a run, concurrencyLimit never increases and dispatchDelay never
\* decreases from one state to the next, and the limit stays between 1 and the
\* provider baseline.
C8_OnlyTighter ==
    /\ []C8_LimitInRange
    /\ [][\A r \in DOMAIN runs :
            Stays(r) => /\ runs'[r].concurrencyLimit <= runs[r].concurrencyLimit
                        /\ runs'[r].dispatchDelay >= runs[r].dispatchDelay]_vars

\* A run of the openai provider has been throttled from 5 and 100.
C8_Witness ==
    \E r \in Live : runs[r].cfg.provider = "openai" /\ Throttled(r)

\* The errors C9 names: no status or text that marks a rate limit or a transient
\* failure.
C9_Terminal(e) == e.status \in {0, 400} /\ e.text \subseteq {"MIME", "SAFETY"}

\* What C9 asks of the step in which a call of task k fails with such an error:
\* the task ends at once with the item in error, and concurrencyLimit and
\* dispatchDelay stay as they were.
C9_TerminalStep(r, k, e) ==
    LET t == runs[r].activePromises[k] IN
    /\ r \in DOMAIN runs' =>
          /\ \A j \in 1..Len(runs'[r].activePromises) : runs'[r].activePromises[j].id # t.id
          /\ runs'[r].concurrencyLimit = runs[r].concurrencyLimit
          /\ runs'[r].dispatchDelay = runs[r].dispatchDelay
    /\ t.id \in Ids(images) =>
          /\ Item(images', t.id).status = "error"
          /\ "MIME" \in e.text => Item(images', t.id).errorMessage = "mime"
          /\ e.text = {"SAFETY"} => Item(images', t.id).errorMessage = "safety"
          /\ e.text = {} /\ KeyMissing(runs[r].cfg) => Item(images', t.id).errorMessage = "nokey"

\* C9 as stated: a failure that is not retryable puts the item in error at the
\* attempt where it occurs, with no further call and no change of
\* concurrencyLimit or dispatchDelay.
C9_TerminalErrorEndsInError ==
    [][\A <<r, k>> \in Tasks : \A e \in Errors :
          C9_Terminal(e) /\ TaskReject(r, k, e) => C9_TerminalStep(r, k, e)]_vars

\* C9 amended: it does so when the stop flag is not set at the time the call
\* fails; under a set flag the task ends and the item is left as it is.
C9_TerminalErrorNotRetried ==
    [][\A <<r, k>> \in Tasks : \A e \in Errors :
          /\ C9_Terminal(e) /\ TaskReject(r, k, e)
          => IF shouldStop
             THEN images' = images /\ (r \in DOMAIN runs' => InFlight(r) > Len(runs'[r].activePromises))
             ELSE C9_TerminalStep(r, k, e)]_vars

\* An item is in error with the malformed message while its run, still at the
\* baseline, goes on.
C9_Witness ==
    \E i \in 1..Len(images) : \E r \in Live :
        /\ images[i].status = "error"
        /\ images[i].errorMessage = "mime"
        /\ images[i].id \in { runs[r].queue[j] : j \in 1..(runs[r].pos - 1) }
        /\ ~runs[r].rateLimitSeen
        /\ runs[r].concurrencyLimit = 3

\* A step of task k of run r: its call resolves or rejects, or its backoff ends.
TaskStep(r, k) ==
    \/ \E result \in AllResults : TaskResolve(r, k, result)
    \/ \E e \in Errors : TaskReject(r, k, e)
    \/ BackoffTimer(r, k)

TranslateStep(k) ==
    \/ \E enText \in TranslateResults : TranslateResolve(k, enText)
    \/ \E e \in Errors : TranslateReject(k, e)

\* What a step of run r leaves of the items when its task changes none: the
\* list as it was, or with the next queued item set to loading by the loop.
C10_Untouched(r) ==
    \/ images' = images
    \/ /\ Dispatches(r)
       /\ \A i \in 1..Len(images) :
            images[i].id # runs[r].queue[runs[r].pos] => images'[i] = images[i]

\* C10: when a caption or translate request for a deleted item resolves, fails
\* or is retried, it changes no item and the deleted item is not back in the list.
C10_DeletedItemUntouched ==
    [][/\ \A <<r, k>> \in Tasks :
            runs[r].activePromises[k].id \notin Ids(images) /\ TaskStep(r, k)
            => /\ [i \in 1..Len(images') |-> images'[i].id] = [i \in 1..Len(images) |-> images[i].id]
               /\ C10_Untouched(r)
       /\ \A k \in 1..Len(translations) :
            translations[k].id \notin Ids(images) /\ TranslateStep(k)
            => images' = images]_vars

\* A caption request is in flight for an item that a single delete removed, in
\* a session nobody stopped, with another item in the list.
C10_Witness ==
    \E <<r, k>> \in Tasks :
        /\ runs[r].activePromises[k].id \notin Ids(images)
        /\ runs[r].activePromises[k].pc = "call"
        /\ ~shouldStop
        /\ images # <<>>

\* Item id has a task at attempt 0 in flight after the step and shows loading.
StartedAfter(id) ==
    /\ id \in Ids(images') /\ Item(images', id).status = "loading"
    /\ \E r \in DOMAIN runs' : \E k \in 1..Len(runs'[r].activePromises) :
          /\ runs'[r].activePromises[k].id = id
          /\ runs'[r].activePromises[k].attempt = 0
          /\ runs'[r].activePromises[k].pc = "call"

\* C11: a regenerate request for an existing item that is not in flight is
\* carried out, also while a bulk run is active: the item is dispatched at
\* attempt 0.
C11_RegenerateCarriedOut ==
    [][\A id \in 1..MaxItems : Regenerate(id) => StartedAfter(id)]_vars

\* C12: a regenerate that starts its item, at attempt 0, leaves concurrencyLimit
\* and dispatchDelay of every other run that is still active, and the cancel
\* flag such a run reads, as they were.
C12_RegenerateLeavesOtherRuns ==
    [][\A id \in 1..MaxItems :
          Regenerate(id) /\ ~isProcessing /\ DOMAIN runs # {}
          => /\ StartedAfter(id)
             /\ \A r \in DOMAIN runs :
                   /\ r \in DOMAIN runs'
                   /\ runs'[r].concurrencyLimit = runs[r].concurrencyLimit
                   /\ runs'[r].dispatchDelay = runs[r].dispatchDelay
             /\ shouldStop' = shouldStop]_vars

\* Task k of run r leaves activePromises in the step.
TaskEnds(r, k) ==
    /\ r \in DOMAIN runs' =>
          \A j \in 1..Len(runs'[r].activePromises) :
              runs'[r].activePromises[j].id # runs[r].activePromises[k].id
    /\ TaskStep(r, k)

\* Run r returns in the step.
Returns(r) == r \in DOMAIN runs /\ r \notin DOMAIN runs'

C14_TransientStatuses ==
    \A id \in 1..MaxItems :
        (id \in Ids(images) /\ Item(images, id).status \in {"loading", "translating"})
        ~> (id \notin Ids(images) \/ Item(images, id).status \in {"success", "error"})

\* The ids of the tasks in flight in run record run.
TaskIds(run) == { run.activePromises[k].id : k \in 1..Len(run.activePromises) }

\* The tasks in flight in run r are of the items before its loop position.
C15_DispatchedIsPrefix ==
    \A r \in Live :
        /\ runs[r].pos \in 1..(Len(runs[r].queue) + 1)
        /\ TaskIds(runs[r]) \subseteq { runs[r].queue[j] : j \in 1..(runs[r].pos - 1) }

\* C15: a run dispatches its queue in input order: each dispatch is of the item
\* at the loop position, which then moves on by one, and no task appears in any
\* other way; a run that starts dispatches the first item of its queue.
C15_DispatchInInputOrder ==
    /\ []C15_DispatchedIsPrefix
    /\ [][\A r \in DOMAIN runs' :
            IF r \in DOMAIN runs
            THEN /\ runs'[r].queue = runs[r].queue
                 /\ \/ /\ runs'[r].pos = runs[r].pos
                       /\ TaskIds(runs'[r]) \subseteq TaskIds(runs[r])
                    \/ /\ runs'[r].pos = runs[r].pos + 1
                       /\ TaskIds(runs'[r]) \ TaskIds(runs[r]) = {runs[r].queue[runs[r].pos]}
                       /\ runs'[r].activePromises[Len(runs'[r].activePromises)]
                             = NewTask(runs[r].queue[runs[r].pos])
            ELSE /\ runs'[r].pos = 2
                 /\ runs'[r].activePromises = <<NewTask(runs'[r].queue[1])>>]_vars

\* In the only run so far, the second item of the queue has completed while the
\* first, dispatched before it, is still in its first call.
C15_Witness ==
    \E r \in Live :
        /\ runCount = 1 /\ userActions = 2 /\ translations = <<>>
        /\ Len(runs[r].queue) = 2
        /\ runs[r].pos = 3
        /\ TaskIds(runs[r]) = {runs[r].queue[1]}
        /\ runs[r].activePromises[1].attempt = 0
        /\ Item(images, runs[r].queue[2]).status = "success"

\* C16: a run returns, calling setIsProcessing(false), only when none of its
\* tasks is in flight any more: in the step in which it returns it has no task
\* left but, at most, the one that settles in that step; and no timer or
\* provider answer turns isProcessing off in any other way.
C16_CompletionAfterAllTasks ==
    [][/\ \A r \in DOMAIN runs :
            Returns(r) => /\ InFlight(r) <= 1
                          /\ InFlight(r) = 1 => TaskStep(r, 1)
                          /\ runs[r].pc \in {"pace", "drain", "gate"}
                          /\ isProcessing' = FALSE
       /\ isProcessing /\ ~isProcessing' /\ userActions' = userActions
            => \E r \in DOMAIN runs : Returns(r)]_vars

\* A run whose loop ended on the cancel flag, with items of its queue not
\* dispatched, waits in Promise.all for a task that is still in flight.
C16_Witness ==
    \E r \in Live :
        /\ runs[r].pc = "drain"
        /\ runs[r].stopped
        /\ runs[r].pos <= Len(runs[r].queue)
        /\ InFlight(r) >= 1

\* The call of task k of run r is answered with response resp, which the run's
\* adapter turns into the error it throws.
TaskFails(r, k, resp) ==
    /\ ~KeyMissing(runs[r].cfg)
    /\ TaskReject(r, k, AdapterError(runs[r].cfg.provider, resp))

\* C17: with either adapter, a response of status 429 below the retry limit is
\* retried as a rate limit, with the run throttled, and a response of status
\* 503 is retried with the plain backoff, whatever the body of the response.
C17_StatusDecidesClass ==
    [][\A <<r, k>> \in Tasks : \A resp \in Responses :
          /\ resp.status \in {429, 503}
          /\ ~shouldStop
          /\ runs[r].activePromises[k].attempt < MAX_RETRIES
          /\ TaskFails(r, k, resp)
          => /\ Stays(r)
             /\ Len(runs'[r].activePromises) = InFlight(r)
             /\ runs'[r].activePromises[k].pc = "wait"
             /\ IF resp.status = 429
                THEN /\ runs'[r].activePromises[k].backoff = "quota"
                     /\ runs'[r].concurrencyLimit = 1
                     /\ runs'[r].dispatchDelay = 8000
                ELSE /\ runs'[r].activePromises[k].backoff = "net"
                     /\ runs'[r].concurrencyLimit = runs[r].concurrencyLimit
                     /\ runs'[r].dispatchDelay = runs[r].dispatchDelay]_vars

\* The same for the runs of the gemini adapter only.
StatusDecidesClassGemini ==
    [][\A <<r, k>> \in Tasks : \A resp \in Responses :
          /\ resp.status \in {429, 503}
          /\ runs[r].cfg.provider = "gemini"
          /\ ~shouldStop
          /\ runs[r].activePromises[k].attempt < MAX_RETRIES
          /\ TaskFails(r, k, resp)
          => /\ Stays(r)
             /\ runs'[r].activePromises[k].pc = "wait"
             /\ runs'[r].activePromises[k].backoff = (IF resp.status = 429 THEN "quota" ELSE "net")]_vars

\* Every error an adapter makes of a response is one of Errors.
AdapterErrorsListed ==
    \A provider \in Providers : \A resp \in Responses :
        AdapterError(provider, resp) \in AdapterErrors([provider |-> provider, openaiApiKey |-> TRUE])

\* The content is a JSON object with the keys en and zh.
WellFormed(content) == IF content.parses THEN HasCaption(content.json) ELSE FALSE

\* The call of task k of run r is answered with content, which the run's adapter
\* turns into the result it resolves with.
TaskAnswered(r, k, content) ==
    TaskResolve(r, k, ParseCaption(runs[r].cfg.provider, content))

\* What C18 asks of the step in which content arrives for an item in the list:
\* the task ends with the item in success, and content that is not a JSON
\* object with en and zh gives the raw content and the placeholder.
C18_SuccessStep(r, k, content) ==
    LET id == runs[r].activePromises[k].id IN
    /\ r \in DOMAIN runs' =>
          \A j \in 1..Len(runs'[r].activePromises) : runs'[r].activePromises[j].id # id
    /\ Item(images', id).status = "success"
    /\ ~WellFormed(content) =>
          /\ Item(images', id).caption = Trim(content.raw)
          /\ Item(images', id).captionZh = Placeholder(runs[r].cfg.provider)

\* C18: with either provider, whenever the provider returns content, the item
\* ends in success without a retry; content that is not a JSON object with
\* keys en and zh yields en = the raw content and zh = the placeholder.
C18_ContentYieldsSuccess ==
    [][\A <<r, k>> \in Tasks : \A content \in Contents :
          /\ ~shouldStop
          /\ runs[r].activePromises[k].id \in Ids(images)
          /\ TaskAnswered(r, k, content)
          => C18_SuccessStep(r, k, content)]_vars

\* The same for content that JSON.parse rejects or that is well formed.
ParsedOrRejectedContentYieldsSuccess ==
    [][\A <<r, k>> \in Tasks : \A content \in Contents :
          /\ ~shouldStop
          /\ runs[r].activePromises[k].id \in Ids(images)
          /\ WellFormed(content) \/ ~content.parses
          /\ TaskAnswered(r, k, content)
          => C18_SuccessStep(r, k, content)]_vars

-----------------------------------------------------------------------------
\* Export text.

\* The segments that are not blank, each trimmed, separated by one space.
ExportText(prefix, body, suffix) ==
    LET kept == SelectSeq(<<prefix, body, suffix>>, NonBlank)
    IN  Join([k \in 1..Len(kept) |-> Trim(kept[k])], <<" ">>)

\* C19: every exported file holds the prefix, the trimmed caption body and the
\* suffix of its item, blank segments skipped, the others separated by exactly
\* one space: prefix "t, ", body "a", suffix ", b" give "t, a , b".
C19_ExportTextSingleSpaced ==
    [][/\ \A id \in 1..MaxItems :
            DownloadSingle(id) =>
                downloads'[Len(downloads')].files[1].content =
                    ExportText(settings.prefix, Item(images, id).caption, settings.suffix)
       /\ DownloadZip /\ Len(downloads') > Len(downloads) =>
            LET files == downloads'[Len(downloads')].files
                captioned == SelectSeq(images, LAMBDA img : NonBlank(img.caption))
            IN  \A k \in 1..Len(files) :
                    files[k].content =
                        ExportText(settings.prefix, captioned[k].caption, settings.suffix)]_vars

-----------------------------------------------------------------------------
\* Preview handles.

\* Item id was uploaded and is no longer in the list.
Removed(id) == id < nextId /\ id \notin Ids(images)

C20_ReleasedIffRemoved ==
    \A id \in 1..MaxItems : revoked[id] = IF Removed(id) THEN 1 ELSE 0

C20_ReleasedAtRemoval ==
    \A id \in 1..MaxItems :
        revoked'[id] = revoked[id] + IF id \in Ids(images) /\ id \notin Ids(images') THEN 1 ELSE 0

\* C20: the preview URL of an item is revoked in the step that removes the item
\* from the list (single delete, delete selected or clear all), in flight or
\* not, and in no other step: a removed item's URL has been revoked exactly
\* once, the URL of an item in the list never.
C20_PreviewReleasedOnce == []C20_ReleasedIffRemoved /\ [][C20_ReleasedAtRemoval]_vars

\* One item was removed while its caption request was in flight, and another
\* item is still in the list.
C20_Witness ==
    /\ \E <<r, k>> \in Tasks :
          /\ Removed(runs[r].activePromises[k].id)
          /\ runs[r].activePromises[k].pc = "call"
          /\ revoked[runs[r].activePromises[k].id] = 1
    /\ \E id \in Ids(images) : revoked[id] = 0

-----------------------------------------------------------------------------
\* Archive entries.

\* C28: the archive of a zip download has one entry for each of its input
\* files, also when files share a base name, so no entry overwrites another.
C28_OneEntryPerFile ==
    [][DownloadZip /\ Len(downloads') > Len(downloads) =>
         LET d == downloads'[Len(downloads')]
         IN  Cardinality(DOMAIN d.saved) = Len(d.files)]_vars

-----------------------------------------------------------------------------
\* Caption edits.

\* C21: an edit of the English caption is applied only to an item that is
\* neither loading nor translating, and an edit of the Chinese caption only to
\* an item that is not loading.
C21_NoEditWhileInFlight ==
    [][\A id \in 1..MaxItems, text \in CaptionEdits :
          /\ UpdateCaption(id, text) =>
                Item(images, id).status \notin {"loading", "translating"}
          /\ UpdateCaptionZh(id, text) => Item(images, id).status # "loading"]_vars

-----------------------------------------------------------------------------
\* Error messages.

\* C22: an item whose status is success has no error message.
C22_SuccessHasNoMessage ==
    \A i \in 1..Len(images) :
        images[i].status = "success" => images[i].errorMessage = "none"

\* The caption path alone: a task that writes success clears the message.
CaptionSuccessClearsMessage ==
    [][\A <<r, k>> \in Tasks : \A result \in AllResults :
          LET id == runs[r].activePromises[k].id IN
          TaskResolve(r, k, result) /\ id \in Ids(images')
              /\ Item(images', id).status = "success"
              /\ (id \notin Ids(images) \/ Item(images, id).status # "success")
          => Item(images', id).errorMessage = "none"]_vars

-----------------------------------------------------------------------------
\* Attempt numbers.

\* The attempt of every task is between 0 and 10 and the task has made
\* attempt + 1 adapter calls, so at most 11.
C23_AttemptInRange ==
    \A <<r, k>> \in Tasks :
        LET t == runs[r].activePromises[k] IN
        t.attempt \in 0..MAX_RETRIES /\ t.calls = t.attempt + 1 /\ t.calls <= 11

\* The task a dispatch of run r adds starts at attempt 0 with its first call.
C23_DispatchedAtZero(r) ==
    LET t == runs'[r].activePromises[Len(runs'[r].activePromises)] IN
    t.attempt = 0 /\ t.calls = 1 /\ t.pc = "call"

\* The step that ends task k of run r with the item, if still listed, in error.
C23_EndsInError(r, k) ==
    LET t == runs[r].activePromises[k] IN
    /\ r \in DOMAIN runs' =>
            \A j \in 1..Len(runs'[r].activePromises) : runs'[r].activePromises[j].id # t.id
    /\ t.id \in Ids(images) => Item(images', t.id).status = "error"

\* C23: every task starts at attempt 0 when its item is dispatched, by a run or
\* by a regenerate; the attempt never exceeds 10, so one dispatch makes at most
\* 11 adapter calls; and a retryable error of any class at attempt 10 ends the
\* task with the item in error instead of a further retry.
C23_AttemptCapped ==
    /\ []C23_AttemptInRange
    /\ [][\A r \in DOMAIN runs' :
            (r \notin DOMAIN runs \/ Dispatches(r)) => C23_DispatchedAtZero(r)]_vars
    /\ [][\A <<r, k>> \in Tasks : \A e \in Errors :
            /\ ~shouldStop
            /\ IsRetryable(e)
            /\ Attempt(r, k) = MAX_RETRIES
            /\ TaskReject(r, k, e)
            => C23_EndsInError(r, k)]_vars

\* A task is in its eleventh call after a mix of rate-limit and transient errors.
C23_Witness ==
    \E <<r, k>> \in Tasks :
        /\ ~shouldStop
        /\ runs[r].rateLimitSeen
        /\ ~runs[r].activePromises[k].allRateLimit
        /\ runs[r].activePromises[k].attempt = MAX_RETRIES
        /\ runs[r].activePromises[k].calls = 11
        /\ runs[r].activePromises[k].pc = "call"
        /\ runs[r].activePromises[k].id \in Ids(images)
        /\ Len(runs[r].activePromises) = 1

-----------------------------------------------------------------------------
\* Sync translate.

\* The translate request k is gone after the step and no run has changed.
C24_CallOver(k) ==
    /\ Len(translations') = Len(translations) - 1
    /\ runs' = runs

\* What the step of a translate request's start, answer and failure does, with
\* the English caption set on success to the returned text, trimmed or not.
C24_Steps(trimmed) ==
    /\ \A id \in 1..MaxItems, zhText \in ZhInputs :
          Translate(id, zhText) =>
              /\ Item(images', id).status = "translating"
              /\ Item(images', id).captionZh = zhText
              /\ Len(translations') = Len(translations) + 1
              /\ runs' = runs
    /\ \A k \in 1..Len(translations), enText \in TranslateResults :
          TranslateResolve(k, enText) =>
              /\ C24_CallOver(k)
              /\ translations[k].id \in Ids(images) =>
                    /\ Item(images', translations[k].id).status = "success"
                    /\ Item(images', translations[k].id).caption =
                          IF trimmed THEN Trim(enText) ELSE enText
    /\ \A k \in 1..Len(translations), e \in Errors :
          TranslateReject(k, e) =>
              /\ C24_CallOver(k)
              /\ translations[k].id \in Ids(images) =>
                    /\ Item(images', translations[k].id).status = "error"
                    /\ Item(images', translations[k].id).errorMessage = "syncFailed"

\* C24 as stated: a sync translate puts the item in translating with the
\* submitted Chinese text, and its one call ends it in success with the
\* returned text as English caption or in error with the sync-failed message,
\* without a retry for any error and without a change to any run.
C24_SingleCallReturnedText == [][C24_Steps(FALSE)]_vars

\* C24 amended: the same, with the English caption set to the returned text
\* without its leading and trailing white space.
C24_SingleCallTrimmedText == [][C24_Steps(TRUE)]_vars

\* A translate request of an item that is still listed is in flight while a run
\* is active, and an earlier one failed.
C24_Witness ==
    /\ \E k \in 1..Len(translations) :
          /\ translations[k].id \in Ids(images)
          /\ Item(images, translations[k].id).errorMessage = "syncFailed"
          /\ Item(images, translations[k].id).status = "translating"
    /\ runs # <<>>

-----------------------------------------------------------------------------
\* Final error messages.

\* The class of error e in a run with settings cfg, by the precedence of C25.
C25_Class(e, cfg) ==
    CASE e.status = 429 \/ e.text \cap {"429", "RESOURCE_EXHAUSTED", "quota"} # {} -> "quota"
      [] OTHER ->
    CASE "MIME" \in e.text -> "mime"
      [] OTHER ->
    CASE "SAFETY" \in e.text -> "safety"
      [] OTHER ->
    CASE cfg.provider = "openai" /\ ~cfg.openaiApiKey -> "nokey"
      [] OTHER -> "failed"

\* The step, of a run that is not cancelled, leaves the item of task k of run r
\* in error.
C25_Fails(r, k) ==
    /\ ~shouldStop
    /\ runs[r].activePromises[k].id \in Ids(images')
    /\ Item(images', runs[r].activePromises[k].id).status = "error"

\* C25: a caption task that puts its item in error chooses the message by the
\* class of the error that ended it: rate limit before MIME before SAFETY
\* before missing OpenAI key before the generic failure.
C25_MessageByPrecedence ==
    [][\A <<r, k>> \in Tasks :
          C25_Fails(r, k) =>
              \A e \in Errors :
                  TaskReject(r, k, e)
                  => Item(images', runs[r].activePromises[k].id).errorMessage
                         = C25_Class(e, runs[r].cfg)]_vars

\* One item failed with exhausted rate-limit retries and another with a MIME error.
C25_Witness ==
    /\ \E i \in 1..Len(images) :
          images[i].status = "error" /\ images[i].errorMessage = "quota"
    /\ \E i \in 1..Len(images) :
          images[i].status = "error" /\ images[i].errorMessage = "mime"

-----------------------------------------------------------------------------
\* Baselines.

\* C26: a run that starts has concurrencyLimit 5 and dispatchDelay 100 when the
\* provider selected at its start is openai, and 3 and 500 otherwise, whatever
\* the limits of the runs before it.
C26_RunStartsAtBaseline ==
    [][\A r \in DOMAIN runs' \ DOMAIN runs :
          IF settings.provider = "openai"
          THEN runs'[r].concurrencyLimit = 5 /\ runs'[r].dispatchDelay = 100
          ELSE runs'[r].concurrencyLimit = 3 /\ runs'[r].dispatchDelay = 500]_vars

\* A run at the baseline has started while an earlier run is throttled.
C26_Witness ==
    \E r1, r2 \in DOMAIN runs :
        /\ r1 < r2
        /\ runs[r1].concurrencyLimit = 1 /\ runs[r1].dispatchDelay = 8000
        /\ runs[r2].concurrencyLimit = 3 /\ runs[r2].dispatchDelay = 500

-----------------------------------------------------------------------------
\* Backoff delays.

\* 3000 ms at attempt 0 and one and a half times the previous value at each
\* further attempt.
RECURSIVE C27_Transient(_)
C27_Transient(attempt) ==
    IF attempt = 0 THEN Ms(3000)
    ELSE C27_Transient(attempt - 1) + C27_Transient(attempt - 1) \div 2

\* The wait of a task in backoff: after a transient error 3000 * 1.5^attempt ms,
\* after a rate limit at least 15000 and less than 20000 ms, whatever the attempt.
C27_WaitOfTask(t) ==
    /\ t.backoff = "net" =>
          t.delay = C27_Transient(t.attempt)
    /\ t.backoff = "quota" => Ms(15000) <= t.delay /\ t.delay < Ms(20000)

-----------------------------------------------------------------------------
\* Serialization after a rate limit.

\* The calls of run record run that are in flight.
CallsOf(run) == { k \in 1..Len(run.activePromises) : run.activePromises[k].pc = "call" }

\* A run that has detected a rate limit dispatches an item only when the new
\* task is then its only task in flight.
DispatchAloneAfterRateLimit ==
    \A r \in DOMAIN runs :
        runs[r].rateLimitSeen /\ Dispatches(r) => Len(runs'[r].activePromises) = 1

\* A run that has detected a rate limit starts a call, by a dispatch or by a
\* retry, only when it is then its only call in flight.
CallAloneAfterRateLimit ==
    \A r \in DOMAIN runs :
        /\ runs[r].rateLimitSeen
        /\ Stays(r)
        /\ \/ Dispatches(r)
           \/ \E k \in 1..Len(runs[r].activePromises) : BackoffTimer(r, k) /\ ~shouldStop
        => Cardinality(CallsOf(runs'[r])) = 1

\* C29: once a run has detected a rate limit, it dispatches a further item only
\* when none of its other tasks is in flight, waiting ones included, and it
\* starts no request while another of its requests is in flight.
C29_SerializedAfterRateLimit ==
    [][DispatchAloneAfterRateLimit /\ CallAloneAfterRateLimit]_vars

-----------------------------------------------------------------------------
\* The processing indicator.

\* C30: while a run that nobody stopped has not returned, its loop still
\* dispatching or its tasks in flight, isProcessing is true.
C30_IndicatorWhileWorking ==
    \A r \in DOMAIN runs : ~runs[r].stopped => isProcessing

-----------------------------------------------------------------------------
\* Queued items that are deleted.

\* C31: a run dispatches an item, sending it to the provider, only while the
\* item is in the list: an item removed by a single delete while it waited in
\* the run's queue is not dispatched.
C31_NoCallForDeletedQueuedItem ==
    [][\A r \in DOMAIN runs :
          Dispatches(r) => runs[r].queue[runs[r].pos] \in Ids(images)]_vars

-----------------------------------------------------------------------------
\* Caption tasks and sync translates of one item.

\* C32: while a caption task of an item in the list is in flight in a run that
\* nobody stopped, the item shows loading, whatever a sync translate of the
\* same item does meanwhile.
C32_LoadingWhileTaskInFlight ==
    \A <<r, k>> \in Tasks :
        ~runs[r].stopped /\ runs[r].activePromises[k].id \in Ids(images)
        => Item(images, runs[r].activePromises[k].id).status = "loading"

-----------------------------------------------------------------------------
\* What a caption task or a translate changes.

CaptionFields == {"status", "caption", "captionZh", "errorMessage"}

\* Item i of the list keeps every field but, at most, its caption fields.
C33_OnlyCaptionFields(i) ==
    /\ DOMAIN images'[i] = DOMAIN images[i]
    /\ \A f \in DOMAIN images[i] \ CaptionFields : images'[i][f] = images[i][f]

\* The step keeps the list's ids in their order and the preview handles, and
\* changes only caption fields, and only of the items with the given ids.
C33_Frame(ids) ==
    /\ IdsOf(images') = IdsOf(images)
    /\ revoked' = revoked
    /\ \A i \in 1..Len(images) :
          IF images[i].id \in ids THEN C33_OnlyCaptionFields(i)
          ELSE images'[i] = images[i]

\* The id of the item that the loop of run r dispatches in the step, if any.
C33_Dispatched(r) == IF Dispatches(r) THEN {runs[r].queue[runs[r].pos]} ELSE {}

\* Task k of run r is in flight after the step as it was before, so the step is
\* none of its own (the ids of the tasks of one run are distinct).
TaskUntouched(r, k) ==
    /\ r \in DOMAIN runs'
    /\ k <= Len(runs'[r].activePromises)
    /\ runs'[r].activePromises[k] = runs[r].activePromises[k]

\* C33: a step of a caption task changes only the status, caption, Chinese
\* caption and error message of the task's item and of the item the run's loop
\* dispatches in the same step, a translate only those of its item; every
\* other item, the selected flag, file and preview handle of the item itself,
\* and the set and order of the items in the list stay as they were.
C33_OnlyOwnItemChanged ==
    [][/\ \A <<r, k>> \in Tasks :
            \/ userActions' # userActions
            \/ TaskUntouched(r, k)
            \/ C33_Frame({runs[r].activePromises[k].id} \cup C33_Dispatched(r))
            \/ ~TaskStep(r, k)
       /\ \A r \in DOMAIN runs : PaceTimer(r) => C33_Frame(C33_Dispatched(r))
       /\ \A r \in DOMAIN runs' \ DOMAIN runs : C33_Frame({runs'[r].queue[1]})
       /\ \A id \in 1..MaxItems, zhText \in ZhInputs :
            Translate(id, zhText) => C33_Frame({id})
       /\ \A k \in 1..Len(translations) :
            \/ userActions' # userActions
            \/ C33_Frame({translations[k].id})
            \/ ~TranslateStep(k)]_vars

\* A selected item got its captions from a caption task and an item that is
\* not selected got its English caption from a translate.
C33_Witness ==
    \E i, j \in 1..Len(images) :
        /\ images[i].selected /\ images[i].status = "success"
        /\ images[i].captionZh = <<"z">>
        /\ ~images[j].selected /\ images[j].status = "success"
        /\ images[j].caption = <<"t">> /\ images[j].captionZh = <<"y">>

-----------------------------------------------------------------------------
\* Caption texts and failures.

\* The step keeps the list's ids and the English caption of every item.
C34_CaptionKept ==
    /\ IdsOf(images') = IdsOf(images)
    /\ \A i \in 1..Len(images) : images'[i].caption = images[i].caption

\* The step keeps the list's ids and both caption texts of every item.
C34_CaptionsKept ==
    /\ C34_CaptionKept
    /\ \A i \in 1..Len(images) : images'[i].captionZh = images[i].captionZh

\* C34: the step in which a caption call fails, whether the task goes into a
\* retry wait or ends with the item in error, and the step that starts the
\* retry leave the English and Chinese caption texts as they were; the steps
\* of a translate that fails, its start and its failure, leave the English
\* caption as it was.
C34_FailureKeepsCaptions ==
    [][/\ \A <<r, k>> \in Tasks :
            \/ userActions' # userActions
            \/ TaskUntouched(r, k)
            \/ C34_CaptionsKept
            \/ ~(BackoffTimer(r, k) \/ \E e \in Errors : TaskReject(r, k, e))
       /\ \A id \in 1..MaxItems, zhText \in ZhInputs :
            Translate(id, zhText) => C34_CaptionKept
       /\ \A k \in 1..Len(translations) :
            \/ C34_CaptionKept
            \/ ~\E e \in Errors : TranslateReject(k, e)]_vars

\* An item that has both caption texts from an earlier success is in error
\* after a caption call that failed, and another after a translate that failed.
C34_Witness ==
    \E i, j \in 1..Len(images) :
        /\ images[i].status = "error" /\ images[i].errorMessage = "mime"
        /\ images[i].caption = <<"a">> /\ images[i].captionZh = <<"z">>
        /\ images[j].status = "error" /\ images[j].errorMessage = "syncFailed"
        /\ images[j].caption = <<"a">>

-----------------------------------------------------------------------------
\* The settings of a run.

\* A run that starts in the step has the settings of the time of its start.
C35_StartsWithCurrent ==
    \A r \in DOMAIN runs' \ DOMAIN runs : runs'[r].cfg = settings

\* A run that goes on keeps its settings, and keeps its concurrencyLimit and
\* dispatchDelay in a step that changes the settings of the page.
C35_KeepsSettings ==
    \A r \in DOMAIN runs \cap DOMAIN runs' :
        /\ runs'[r].cfg = runs[r].cfg
        /\ settings' # settings =>
              /\ runs'[r].concurrencyLimit = runs[r].concurrencyLimit
              /\ runs'[r].dispatchDelay = runs[r].dispatchDelay

\* A call of run r that resolves was answered by the adapter of the provider
\* the run started with, and a run started without an OpenAI key gets no answer.
C35_AnsweredByOwnProvider ==
    \A <<r, k>> \in Tasks : \A result \in AllResults :
        \/ result \in Results(runs[r].cfg.provider) /\ ~KeyMissing(runs[r].cfg)
        \/ ~TaskResolve(r, k, result)

\* C35: every adapter call of a run, retries included, is made with the
\* provider, credential and prompt of the settings selected when the run
\* started; a change of the settings while the run is active changes neither
\* the adapter that answers the run's calls nor the run's concurrencyLimit and
\* dispatchDelay.
C35_RunUsesStartSettings ==
    [][C35_StartsWithCurrent /\ C35_KeepsSettings /\ C35_AnsweredByOwnProvider]_vars

\* A task is in its second call, a retry, in a run whose provider and prompt
\* are no longer those of the page.
C35_Witness ==
    \E <<r, k>> \in Tasks :
        /\ runs[r].cfg.provider # settings.provider
        /\ runs[r].cfg.customPrompt # settings.customPrompt
        /\ runs[r].activePromises[k].attempt = 1
        /\ runs[r].activePromises[k].pc = "call"

-----------------------------------------------------------------------------
\* Bulk start.

\* The items a bulk start hands to processQueue and processQueue keeps: the
\* selected items that are not loading, or with none selected the items that
\* are idle or in error.
C36_Taken ==
    IF SelectSeq(images, IsSelected) # <<>>
    THEN SelectSeq(SelectSeq(images, IsSelected), LAMBDA img : img.status # "loading")
    ELSE SelectSeq(images, IsPending)

\* A press of the start button with provider openai and no key starts nothing;
\* otherwise the run it starts has exactly the taken items as its queue.
C36_StartTakesPending ==
    StartProcessing =>
        IF KeyMissing(settings) THEN runs' = runs /\ images' = images
        ELSE \A r \in DOMAIN runs' \ DOMAIN runs : runs'[r].queue = IdsOf(C36_Taken)

\* No run dispatches an item that shows success at that time.
C36_NoSuccessDispatched ==
    \A r \in DOMAIN runs :
        Dispatches(r) /\ runs[r].queue[runs[r].pos] \in Ids(images)
        => Item(images, runs[r].queue[runs[r].pos]).status # "success"

\* C36: a bulk start takes the selected items that are not loading, or with
\* none selected the items that are idle or in error, and nothing with
\* provider openai and an empty key; in a session in which nothing is selected
\* or regenerated, where every run is a bulk start with no item selected, no
\* item is dispatched while it is in success.
C36_BulkStartDispatchesPending ==
    [][C36_StartTakesPending /\ C36_NoSuccessDispatched]_vars

\* The part of C36 about the press itself.
BulkStartTakesPending == [][C36_StartTakesPending]_vars

====
